---- MODULE Spec2Model ----
(***************************************************************************)
(* crabture: a screenshot helper that drives grimblast (capture provider), *)
(* rofi (menu prompter), notify-send (notifier) and, for area captures,    *)
(* hyprpicker (screen-freeze helper).  The program is one sequential       *)
(* script (src/src/main.rs); pc is its position.  External processes and   *)
(* file-system calls are the environment: their outcomes are chosen        *)
(* nondeterministically among the results the calls can return.            *)
(***************************************************************************)
EXTENDS Integers, Sequences, FiniteSets, TLC

VARIABLES
    cli,          \* parsed command line: [instant, instant_area]
    path,         \* the tools found on the search path
    shot_dir,     \* resolved screenshot directory
    pc,           \* position in the script
    exit,         \* "running", "ok" or "err": the process outcome
    errmsg,       \* the error message main returns
    delay,        \* run_interactive local
    kind,         \* CaptureKind argument / local
    how,          \* SaveHow argument / local
    takeRet,      \* which call site of take is active
    secs,         \* countdown's mutable parameter
    secs0,        \* the value countdown was called with
    takeNo,       \* number of calls of take so far
    clock,        \* wall clock, seconds resolution
    name,         \* take local: file name (timestamp)
    picker_child, \* take local: Option<Child> handle
    hyprpicker,   \* the freeze helper process: "none", "alive", "killed"
    status,       \* take local: grimblast's result
    existed,      \* take local: result of tmp_path.exists()
    renameRes,    \* take local: result of fs::rename
    copyRes,      \* take local: result of fs::copy
    removeRes,    \* take local: result of fs::remove_file
    takeResult,   \* what the current/last call of take returned
    fs,           \* file system: <<dir, name>> -> content
    log,          \* external effects so far, in order
    dirIn         \* what the directory is resolved from: [dir, env, cfg, HOME]

vars == <<cli, path, shot_dir, pc, exit, errmsg, delay, kind, how, takeRet,
          secs, secs0, takeNo, clock, name, picker_child, hyprpicker, status,
          existed, renameRes, copyRes, removeRes, takeResult, fs, log,
          dirIn>>

----------------------------------------------------------------------------
(* Bounds *)

\* timestamps (seconds) the clock can show during one run
MaxTs == 2

\* largest argument countdown is applied to in the countdown specification
MaxSecs == 25

\* most lines of a user-dirs.dirs file in the directory specification
MaxLines == 2

----------------------------------------------------------------------------
(* Data *)

RequiredTools == <<"grimblast", "rofi", "notify-send">>

Tools == {"grimblast", "rofi", "notify-send", "hyprpicker"}

CaptureKind == {"Screen", "Output", "Area"}

SaveHow == {"Copy", "Save", "Copysave", "Edit"}

\* the directory home() and a directory different from it
Dirs == {"home", "pictures"}

Timestamps == 1..MaxTs

\* file content: Absent, or k > 0 for the image grimblast wrote during the
\* k-th call of take
Absent == 0

\* what rofi can print for each menu: the listed options and custom input
WhenOutputs == {"Immediate", "Delayed", "other"}

TimerOutputs == { <<"5", "s">>, <<"1", "0", "s">>, <<"2", "0", "s">>,
                  <<"3", "0", "s">>, <<"6", "0", "s">>,
                  <<"0", "s">>, <<"a", "b", "c">>, <<"s", "s">> }

KindOutputs == {"Capture Everything", "Capture Active Display",
                "Capture Selection", "other"}

HowOutputs == {"Copy", "Save", "Copy & Save", "Edit", "other"}

----------------------------------------------------------------------------
(* Pure helpers *)

Digits == <<"0", "1", "2", "3", "4", "5", "6", "7", "8", "9">>

IsDigit(c) == \E i \in 1..10 : Digits[i] = c

DigitVal(c) == (CHOOSE i \in 1..10 : Digits[i] = c) - 1

\* str::trim_end_matches("s")
RECURSIVE TrimEndS(_)
TrimEndS(t) ==
    IF Len(t) > 0 /\ t[Len(t)] = "s" THEN TrimEndS(SubSeq(t, 1, Len(t) - 1))
    ELSE t

RECURSIVE DecValue(_)
DecValue(t) ==
    IF Len(t) = 0 THEN 0
    ELSE 10 * DecValue(SubSeq(t, 1, Len(t) - 1)) + DigitVal(t[Len(t)])

\* the parse applied to the selection as it is, the "s" still on it
ParseDelay_NoTrim(t) ==
    IF Len(t) > 0 /\ (\A i \in 1..Len(t) : IsDigit(t[i]))
    THEN DecValue(t)
    ELSE 5

\* t.trim_end_matches("s").parse::<u64>().unwrap_or(5); every digit string
\* of TimerOutputs is far below 2^64, so the parse fails only on a string
\* that is empty or holds a non-digit
ParseDelay(t) ==
    LET d == TrimEndS(t) IN
    IF Len(d) > 0 /\ (\A i \in 1..Len(d) : IsDigit(d[i]))
    THEN DecValue(d)
    ELSE 5

KindOfStr(s) ==
    CASE s = "Capture Everything" -> "Screen"
      [] s = "Capture Active Display" -> "Output"
      [] OTHER -> "Area"

HowOfStr(s) ==
    CASE s = "Copy" -> "Copy"
      [] s = "Save" -> "Save"
      [] s = "Copy & Save" -> "Copysave"
      [] OTHER -> "Edit"

how_s(h) ==
    CASE h = "Copy" -> "copy"
      [] h = "Save" -> "save"
      [] h = "Copysave" -> "copysave"
      [] h = "Edit" -> "edit"

\* the keywords of Screen and Output exchanged
kind_s_Swapped(k) ==
    CASE k = "Screen" -> "output"
      [] k = "Output" -> "screen"
      [] k = "Area" -> "area"

kind_s(k) ==
    CASE k = "Screen" -> "screen"
      [] k = "Output" -> "output"
      [] k = "Area" -> "area"

\* ensure_tools reporting the last missing name instead of the first
FirstMissing_Last(names, i) ==
    LET m == {j \in i..Len(names) : names[j] \notin path} IN
    IF m = {} THEN "none" ELSE names[CHOOSE j \in m : \A k \in m : j >= k]

RECURSIVE FirstMissing(_, _)
FirstMissing(names, i) ==
    IF i > Len(names) THEN "none"
    ELSE IF names[i] \notin path THEN names[i]
    ELSE FirstMissing(names, i + 1)

tmp_path == <<"home", name>>

\* a destination built from a second call of file_name, a second later
dest_FreshName == <<shot_dir, IF name < MaxTs THEN name + 1 ELSE name>>

dest == <<shot_dir, name>>

\* one external effect; take = 0 outside take
Event(e, a, p, n) == [ev |-> e, take |-> takeNo, args |-> a, path |-> p, n |-> n]

\* notify(title, body): runs notify-send, discards its status, returns Ok
NotifyEvent(title, n) == Event("notify", <<title>>, <<>>, n)

----------------------------------------------------------------------------
(* Screenshot directory: main's shot_dir, xdg_screenshots_dir, home *)

\* Strings are sequences of atoms: "$HOME" is the placeholder, " " a blank,
\* "\"" a double quote, "XDG_SCREENSHOTS_DIR=" the key prefix; every other
\* atom is a piece of text without any of these.

None == [some |-> FALSE, val |-> <<>>]

Some(v) == [some |-> TRUE, val |-> v]

Opt(S) == {None} \cup {Some(v) : v \in S}

\* env::var("HOME").unwrap_or_else(|_| ".".into())
home(in) == IF in.HOME.some THEN in.HOME.val ELSE <<".">>

\* str::replace("$HOME", h)
RECURSIVE ReplaceHome(_, _)
ReplaceHome(t, h) ==
    IF t = <<>> THEN <<>>
    ELSE (IF Head(t) = "$HOME" THEN h ELSE <<Head(t)>>)
             \o ReplaceHome(Tail(t), h)

\* str::trim_matches(c), and str::trim() with c the blank
RECURSIVE TrimStart(_, _)
TrimStart(t, c) ==
    IF t # <<>> /\ Head(t) = c THEN TrimStart(Tail(t), c) ELSE t

RECURSIVE TrimEnd(_, _)
TrimEnd(t, c) ==
    IF t # <<>> /\ t[Len(t)] = c THEN TrimEnd(SubSeq(t, 1, Len(t) - 1), c)
    ELSE t

TrimMatches(t, c) == TrimEnd(TrimStart(t, c), c)

\* line.strip_prefix("XDG_SCREENSHOTS_DIR=")
StripPrefix(line) ==
    IF line # <<>> /\ Head(line) = "XDG_SCREENSHOTS_DIR=" THEN Some(Tail(line))
    ELSE None

\* for line in s.lines() { if let Some(rest) = line.strip_prefix(..) {
\*     return Some(rest.trim().trim_matches('"').replace("$HOME", home)) } }
RECURSIVE ScanLines(_, _, _)
ScanLines(lines, i, h) ==
    IF i > Len(lines) THEN None
    ELSE LET rest == StripPrefix(lines[i]) IN
         IF rest.some
         THEN Some(ReplaceHome(TrimMatches(TrimMatches(rest.val, " "), "\""), h))
         ELSE ScanLines(lines, i + 1, h)

\* the variable first, then the file <home>/.config/user-dirs.dirs
xdg_screenshots_dir_FileFirst(in) ==
    IF in.cfg.some /\ ScanLines(in.cfg.val, 1, home(in)).some
    THEN ScanLines(in.cfg.val, 1, home(in))
    ELSE IF in.env.some THEN Some(ReplaceHome(in.env.val, home(in)))
    ELSE None

xdg_screenshots_dir(in) ==
    IF in.env.some THEN Some(ReplaceHome(in.env.val, home(in)))
    ELSE IF in.cfg.some THEN ScanLines(in.cfg.val, 1, home(in))
    ELSE None

\* cli.dir.or_else(xdg_screenshots_dir).unwrap_or(home().join("Pictures"))
ResolveShotDir(in) ==
    LET d == IF in.dir.some THEN in.dir ELSE xdg_screenshots_dir(in) IN
    IF d.some THEN d.val ELSE Append(home(in), "/Pictures")

\* the inputs the directory specification draws from
DirTexts == { <<"/mnt/shots">>, <<"$HOME", "/Shots">>, <<>> }

CfgLines ==
    { <<"XDG_SCREENSHOTS_DIR=", "\"", "$HOME", "/Screens", "\"">>,
      <<"XDG_SCREENSHOTS_DIR=", " ", "/srv/img", " ">>,
      <<"XDG_PICTURES_DIR=", "\"", "$HOME", "/Pics", "\"">>,
      <<"#", "XDG_SCREENSHOTS_DIR=", "/old">> }

CfgFiles == UNION {[1..n -> CfgLines] : n \in 0..MaxLines}

DirInputs ==
    [dir : Opt(DirTexts), env : Opt(DirTexts), cfg : Opt(CfgFiles),
     HOME : Opt({<<"/home/u">>})]

\* nothing given: no positional argument, no variable, no file, no HOME
NoDirInputs == [dir |-> None, env |-> None, cfg |-> None, HOME |-> None]

----------------------------------------------------------------------------
(* Init *)

NoFiles == [p \in Dirs \X Timestamps |-> Absent]

Init ==
    /\ cli \in [instant : BOOLEAN, instant_area : BOOLEAN]
    /\ path \in SUBSET Tools
    /\ shot_dir \in Dirs
    /\ pc = "ensure_tools"
    /\ exit = "running"
    /\ errmsg = ""
    /\ delay = 0
    /\ kind = "Screen"
    /\ how = "Save"
    /\ takeRet = "none"
    /\ secs = 0
    /\ secs0 = 0
    /\ takeNo = 0
    /\ clock = 1
    /\ name = 1
    /\ picker_child = "None"
    /\ hyprpicker = "none"
    /\ status = "none"
    /\ existed = "unknown"
    /\ renameRes = "none"
    /\ copyRes = "none"
    /\ removeRes = "none"
    /\ takeResult = "none"
    /\ fs = NoFiles
    /\ log = <<>>
    /\ dirIn = NoDirInputs

----------------------------------------------------------------------------
(* main *)

mainVars == <<cli, path, shot_dir, dirIn>>

riVars == <<delay, kind, how>>

cdVars == <<secs, secs0>>

takeVars == <<takeNo, clock, name, picker_child, hyprpicker, status, existed,
              renameRes, copyRes, removeRes, takeResult, fs>>

\* an error reaches the process boundary
\* the failed step tried again instead of ending the run
Fail_Retry(msg) ==
    /\ pc' = pc
    /\ errmsg' = msg
    /\ UNCHANGED exit

Fail(msg) ==
    /\ pc' = "done"
    /\ exit' = "err"
    /\ errmsg' = msg

EnsureTools ==
    /\ pc = "ensure_tools"
    /\ LET m == FirstMissing(RequiredTools, 1) IN
       IF m # "none" THEN Fail(m)
       ELSE /\ pc' = "main_instant"
            /\ UNCHANGED <<exit, errmsg>>
    /\ UNCHANGED <<mainVars, riVars, cdVars, takeVars, takeRet, log>>

MainInstant ==
    /\ pc = "main_instant"
    /\ IF cli.instant
       THEN /\ kind' = "Screen"
            /\ how' = "Save"
            /\ takeRet' = "instant"
            /\ pc' = "take_name"
       ELSE /\ pc' = "main_instant_area"
            /\ UNCHANGED <<kind, how, takeRet>>
    /\ UNCHANGED <<mainVars, delay, cdVars, takeVars, exit, errmsg, log>>

MainInstantArea ==
    /\ pc = "main_instant_area"
    /\ IF cli.instant_area
       THEN /\ kind' = "Area"
            /\ how' = "Save"
            /\ takeRet' = "instant_area"
            /\ pc' = "take_name"
       ELSE /\ pc' = "ri_when"
            /\ UNCHANGED <<kind, how, takeRet>>
    /\ UNCHANGED <<mainVars, delay, cdVars, takeVars, exit, errmsg, log>>

----------------------------------------------------------------------------
(* rofi_pick *)

\* what one call of rofi_pick can come to: "err" (spawning, writing to or
\* waiting for rofi failed), "cancel" (rofi exited with a failure status),
\* or "ok" with the trimmed standard output
RofiResults(outputs, none) ==
    {[res |-> r, out |-> none] : r \in {"err", "cancel"}}
        \cup {[res |-> "ok", out |-> o] : o \in outputs}

\* the prompt, how the call ended and the selection it returned
RofiEvent(prompt, r) == Event("rofi", <<prompt, r.res, r.out>>, <<>>, 0)

RofiError(r) == IF r.res = "cancel" THEN "rofi cancceled" ELSE "rofi failed"

----------------------------------------------------------------------------
(* run_interactive *)

\* if when == "Delayed" { rofi_pick("Choose timer", ..) } else { 0 }
AfterWhen_AlwaysTimer(out) == "ri_timer"

AfterWhen(out) == IF out = "Delayed" THEN "ri_timer" ELSE "ri_kind"

RiWhen ==
    /\ pc = "ri_when"
    /\ \E r \in RofiResults(WhenOutputs, "") :
          /\ log' = Append(log, RofiEvent("Take screenshot", r))
          /\ IF r.res # "ok" THEN Fail(RofiError(r))
             ELSE /\ pc' = AfterWhen(r.out)
                  /\ UNCHANGED <<exit, errmsg>>
    /\ delay' = 0
    /\ UNCHANGED <<mainVars, kind, how, cdVars, takeVars, takeRet>>

RiTimer ==
    /\ pc = "ri_timer"
    /\ \E r \in RofiResults(TimerOutputs, <<>>) :
          /\ log' = Append(log, RofiEvent("Choose timer", r))
          /\ IF r.res # "ok"
             THEN /\ Fail(RofiError(r))
                  /\ UNCHANGED delay
             ELSE /\ delay' = ParseDelay(r.out)
                  /\ pc' = "ri_kind"
                  /\ UNCHANGED <<exit, errmsg>>
    /\ UNCHANGED <<mainVars, kind, how, cdVars, takeVars, takeRet>>

RiKind ==
    /\ pc = "ri_kind"
    /\ \E r \in RofiResults(KindOutputs, "") :
          /\ log' = Append(log, RofiEvent("Type of screenshot", r))
          /\ IF r.res # "ok"
             THEN /\ Fail(RofiError(r))
                  /\ UNCHANGED kind
             ELSE /\ kind' = KindOfStr(r.out)
                  /\ pc' = "ri_how"
                  /\ UNCHANGED <<exit, errmsg>>
    /\ UNCHANGED <<mainVars, delay, how, cdVars, takeVars, takeRet>>

RiHow ==
    /\ pc = "ri_how"
    /\ \E r \in RofiResults(HowOutputs, "") :
          /\ log' = Append(log, RofiEvent("How to save", r))
          /\ IF r.res # "ok"
             THEN /\ Fail(RofiError(r))
                  /\ UNCHANGED how
             ELSE /\ how' = HowOfStr(r.out)
                  /\ pc' = "ri_delay"
                  /\ UNCHANGED <<exit, errmsg>>
    /\ UNCHANGED <<mainVars, delay, kind, cdVars, takeVars, takeRet>>

RiDelay ==
    /\ pc = "ri_delay"
    /\ IF delay > 0
       THEN /\ secs' = delay
            /\ secs0' = delay
            /\ pc' = "cd_head"
       ELSE /\ pc' = "ri_take"
            /\ UNCHANGED cdVars
    /\ UNCHANGED <<mainVars, riVars, takeVars, takeRet, exit, errmsg, log>>

RiTake ==
    /\ pc = "ri_take"
    /\ takeRet' = "interactive"
    /\ pc' = "take_name"
    /\ UNCHANGED <<mainVars, riVars, cdVars, takeVars, exit, errmsg, log>>

----------------------------------------------------------------------------
(* countdown *)

SleepEvent(n) == Event("sleep", <<>>, <<>>, n)

\* a sleep ends at a later second than the one the last file name was taken in
ClockAfterSleep == IF takeNo > 0 /\ clock <= name THEN name + 1 ELSE clock

\* secs = 10: what the first branch leaves in secs
HeadSecs_Unchanged == secs

HeadSecs == 10

\* the first branch: if secs > 10 { notify; sleep(secs - 10); secs = 10 }
CountdownHead ==
    /\ pc = "cd_head"
    /\ IF secs > 10
       THEN /\ log' = log \o <<NotifyEvent("Taking screenshot", secs),
                               SleepEvent(secs - 10)>>
            /\ secs' = HeadSecs
            /\ clock' = ClockAfterSleep
       ELSE UNCHANGED <<log, secs, clock>>
    /\ pc' = "cd_loop"
    /\ UNCHANGED <<mainVars, riVars, secs0, takeNo, name, picker_child,
                   hyprpicker, status, existed, renameRes, copyRes, removeRes,
                   takeResult, fs, takeRet, exit, errmsg>>

\* while secs > 0
LoopCond_Inclusive == secs >= 0

LoopCond == secs > 0

\* one iteration of: while secs > 0 { notify; sleep(1); secs -= 1 }
CountdownTick ==
    /\ pc = "cd_loop"
    /\ LoopCond
    /\ log' = log \o <<NotifyEvent("Taking screenshot", secs), SleepEvent(1)>>
    /\ secs' = secs - 1
    /\ clock' = ClockAfterSleep
    /\ UNCHANGED <<mainVars, riVars, secs0, takeNo, name, picker_child,
                   hyprpicker, status, existed, renameRes, copyRes, removeRes,
                   takeResult, fs, takeRet, pc, exit, errmsg>>

\* the loop ends and countdown returns Ok to run_interactive
CountdownReturn ==
    /\ pc = "cd_loop"
    /\ ~LoopCond
    /\ pc' = "ri_take"
    /\ UNCHANGED <<mainVars, riVars, cdVars, takeVars, takeRet, exit, errmsg,
                   log>>

----------------------------------------------------------------------------
(* take *)

takeLocals == <<picker_child, status, existed, renameRes, copyRes, removeRes>>

\* let name = file_name(format); let tmp_path = home().join(&name);
\* the clock may have moved on since it was last read
TakeName ==
    /\ pc = "take_name"
    /\ \E t \in clock..MaxTs :
          /\ name' = t
          /\ clock' = t
    /\ takeNo' = takeNo + 1
    /\ takeResult' = "running"
    /\ picker_child' = "None"
    /\ status' = "none"
    /\ existed' = "unknown"
    /\ renameRes' = "none"
    /\ copyRes' = "none"
    /\ removeRes' = "none"
    /\ pc' = "take_freeze"
    /\ UNCHANGED <<mainVars, riVars, cdVars, hyprpicker, fs, takeRet, exit,
                   errmsg, log>>

\* the freeze tried for every kind of capture
WantsFreeze_AnyKind == "hyprpicker" \in path

\* the condition under which take tries to spawn hyprpicker
WantsFreeze == kind = "Area" /\ "hyprpicker" \in path

\* spawn hyprpicker -r -z for an area capture; a failed spawn gives None
TakeFreeze ==
    /\ pc = "take_freeze"
    /\ IF WantsFreeze
       THEN \E spawned \in BOOLEAN :
               IF spawned
               THEN /\ picker_child' = "Some"
                    /\ hyprpicker' = "alive"
                    /\ log' = Append(log, Event("spawn_hyprpicker",
                                                <<"-r", "-z">>, <<>>, 0))
               ELSE UNCHANGED <<picker_child, hyprpicker, log>>
       ELSE UNCHANGED <<picker_child, hyprpicker, log>>
    /\ pc' = "take_grimblast"
    /\ UNCHANGED <<mainVars, riVars, cdVars, takeNo, clock, name, status,
                   existed, renameRes, copyRes, removeRes, takeResult, fs,
                   takeRet, exit, errmsg>>

\* .args(["--notify", how_s, kind_s, &tmp_path.to_string_lossy()])
GrimblastEvent ==
    Event("grimblast", <<"--notify", how_s(how), kind_s(kind), tmp_path>>,
          tmp_path, 0)

\* where take goes when Command::status() itself returns Err: the ? operator
\* returns from take; dropping the Child handle does not kill the process
AfterProviderError == "take_ret"

\* Command::new("grimblast").args(..).status().context(..)?
\* "spawn_err": the process could not be started; "fail"/"ok": its exit
\* status.  A process that ran may or may not have written tmp_path.
TakeGrimblast ==
    /\ pc = "take_grimblast"
    /\ log' = Append(log, GrimblastEvent)
    /\ \E r \in {"spawn_err", "fail", "ok"}, wrote \in BOOLEAN :
          /\ status' = r
          /\ IF r = "spawn_err"
             THEN /\ ~wrote
                  /\ takeResult' = "err"
                  /\ errmsg' = "running grimblast"
                  /\ pc' = AfterProviderError
                  /\ UNCHANGED fs
             ELSE /\ fs' = IF wrote THEN [fs EXCEPT ![tmp_path] = takeNo]
                           ELSE fs
                  /\ pc' = "take_unfreeze"
                  /\ UNCHANGED <<takeResult, errmsg>>
    /\ UNCHANGED <<mainVars, riVars, cdVars, takeNo, clock, name,
                   picker_child, hyprpicker, existed, renameRes, copyRes,
                   removeRes, takeRet, exit>>

\* if let Some(mut child) = picker_child.take() { let _ = child.kill(); }
TakeUnfreeze ==
    /\ pc = "take_unfreeze"
    /\ IF picker_child = "Some"
       THEN /\ picker_child' = "None"
            /\ hyprpicker' = "killed"
            /\ log' = Append(log, Event("kill_hyprpicker", <<>>, <<>>, 0))
       ELSE UNCHANGED <<picker_child, hyprpicker, log>>
    /\ pc' = "take_status"
    /\ UNCHANGED <<mainVars, riVars, cdVars, takeNo, clock, name, status,
                   existed, renameRes, copyRes, removeRes, takeResult, fs,
                   takeRet, exit, errmsg>>

\* !status.success()
StatusFailed_Never == FALSE

StatusFailed == status # "ok"

\* if !status.success() { bail!("grimblast failed"); }
TakeStatus ==
    /\ pc = "take_status"
    /\ IF StatusFailed
       THEN /\ takeResult' = "err"
            /\ errmsg' = "grimblast failed"
            /\ pc' = "take_ret"
       ELSE /\ pc' = "take_exists"
            /\ UNCHANGED <<takeResult, errmsg>>
    /\ UNCHANGED <<mainVars, riVars, cdVars, takeNo, clock, name,
                   picker_child, hyprpicker, status, existed, renameRes,
                   copyRes, removeRes, fs, takeRet, exit, log>>

\* tmp_path.exists()
TmpExists_Always == TRUE

TmpExists == fs[tmp_path] # Absent

\* if tmp_path.exists() { .. } Ok(()); existed records what the path held
TakeExists ==
    /\ pc = "take_exists"
    /\ existed' = IF fs[tmp_path] # Absent THEN "yes" ELSE "no"
    /\ IF TmpExists
       THEN /\ pc' = "take_rename"
            /\ UNCHANGED takeResult
       ELSE /\ takeResult' = "ok"
            /\ pc' = "take_ret"
    /\ UNCHANGED <<mainVars, riVars, cdVars, takeNo, clock, name,
                   picker_child, hyprpicker, status, renameRes, copyRes,
                   removeRes, fs, takeRet, exit, errmsg, log>>

\* fs::rename(&tmp_path, &dest): on success the file is at dest and, unless
\* dest is tmp_path itself, no longer at tmp_path
TakeRename ==
    /\ pc = "take_rename"
    /\ \E ok \in BOOLEAN :
          IF ok
          THEN /\ renameRes' = "ok"
               /\ fs' = [fs EXCEPT ![tmp_path] = Absent, ![dest] = fs[tmp_path]]
               /\ pc' = "take_notify"
          ELSE /\ renameRes' = "err"
               /\ pc' = "take_copy"
               /\ UNCHANGED fs
    /\ log' = Append(log, Event("rename", <<>>, dest, 0))
    /\ UNCHANGED <<mainVars, riVars, cdVars, takeNo, clock, name,
                   picker_child, hyprpicker, status, existed, copyRes,
                   removeRes, takeResult, takeRet, exit, errmsg>>

\* what the closure of or_else makes of a failed fs::copy: .ok() discards
\* the error and the closure returns Ok(()), so take goes on to notify
AfterCopyError == "take_notify"

\* where the closure goes after a successful fs::copy: .map(|_| remove_file)
AfterCopyOk_NoRemove == "take_notify"

AfterCopyOk == "take_remove"

\* fs::copy(&tmp_path, &dest).  When dest is tmp_path itself the rename of
\* the existing file onto itself can only have failed for a reason that
\* makes the copy fail too (a read-only file system), so the copy of a file
\* onto itself never succeeds here.
TakeCopy ==
    /\ pc = "take_copy"
    /\ \E ok \in {b \in BOOLEAN : b => dest # tmp_path} :
          IF ok
          THEN /\ copyRes' = "ok"
               /\ fs' = [fs EXCEPT ![dest] = fs[tmp_path]]
               /\ pc' = AfterCopyOk
          ELSE /\ copyRes' = "err"
               /\ pc' = AfterCopyError
               /\ UNCHANGED fs
    /\ log' = Append(log, Event("copy", <<>>, dest, 0))
    /\ UNCHANGED <<mainVars, riVars, cdVars, takeNo, clock, name,
                   picker_child, hyprpicker, status, existed, renameRes,
                   removeRes, takeResult, takeRet, exit, errmsg>>

\* let _ = fs::remove_file(&tmp_path);
TakeRemove ==
    /\ pc = "take_remove"
    /\ \E ok \in BOOLEAN :
          IF ok
          THEN /\ removeRes' = "ok"
               /\ fs' = [fs EXCEPT ![tmp_path] = Absent]
          ELSE /\ removeRes' = "err"
               /\ UNCHANGED fs
    /\ log' = Append(log, Event("remove_file", <<>>, tmp_path, 0))
    /\ pc' = "take_notify"
    /\ UNCHANGED <<mainVars, riVars, cdVars, takeNo, clock, name,
                   picker_child, hyprpicker, status, existed, renameRes,
                   copyRes, takeResult, takeRet, exit, errmsg>>

\* notify("Screenshot saved", "DIR: <shot_dir>")?; then Ok(())
TakeNotify ==
    /\ pc = "take_notify"
    /\ log' = Append(log, Event("notify", <<"Screenshot saved", shot_dir>>,
                                <<>>, 0))
    /\ takeResult' = "ok"
    /\ pc' = "take_ret"
    /\ UNCHANGED <<mainVars, riVars, cdVars, takeNo, clock, name,
                   picker_child, hyprpicker, status, existed, renameRes,
                   copyRes, removeRes, fs, takeRet, exit, errmsg>>

\* where main goes after take(Screen, Save) returned Ok in the --instant
\* branch: the branch has no return, so control falls to the next if
AfterInstant == "main_instant_area"

\* the --instant-area branch without its return Ok(())
TakeReturn_AreaFallsThrough ==
    /\ pc = "take_ret"
    /\ picker_child' = "None"
    /\ IF takeResult = "err"
       THEN /\ pc' = "done"
            /\ exit' = "err"
       ELSE IF takeRet = "instant"
       THEN /\ pc' = AfterInstant
            /\ UNCHANGED exit
       ELSE IF takeRet = "instant_area"
       THEN /\ pc' = "ri_when"
            /\ UNCHANGED exit
       ELSE /\ pc' = "done"
            /\ exit' = "ok"
    /\ UNCHANGED <<mainVars, riVars, cdVars, takeNo, clock, name, hyprpicker,
                   status, existed, renameRes, copyRes, removeRes, takeResult,
                   fs, takeRet, errmsg, log>>

\* take returns to its call site: main's two calls apply ?, then the
\* --instant branch falls through and the --instant-area branch returns
\* Ok(()); run_interactive returns take's result, which main returns
TakeReturn ==
    /\ pc = "take_ret"
    /\ picker_child' = "None"
    /\ IF takeResult = "err"
       THEN /\ pc' = "done"
            /\ exit' = "err"
       ELSE IF takeRet = "instant"
       THEN /\ pc' = AfterInstant
            /\ UNCHANGED exit
       ELSE /\ pc' = "done"
            /\ exit' = "ok"
    /\ UNCHANGED <<mainVars, riVars, cdVars, takeNo, clock, name, hyprpicker,
                   status, existed, renameRes, copyRes, removeRes, takeResult,
                   fs, takeRet, errmsg, log>>

----------------------------------------------------------------------------
(* Specifications *)

Next ==
    \/ EnsureTools
    \/ MainInstant
    \/ MainInstantArea
    \/ RiWhen
    \/ RiTimer
    \/ RiKind
    \/ RiHow
    \/ RiDelay
    \/ RiTake
    \/ CountdownHead
    \/ CountdownTick
    \/ CountdownReturn
    \/ TakeName
    \/ TakeFreeze
    \/ TakeGrimblast
    \/ TakeUnfreeze
    \/ TakeStatus
    \/ TakeExists
    \/ TakeRename
    \/ TakeCopy
    \/ TakeRemove
    \/ TakeNotify
    \/ TakeReturn

Spec == Init /\ [][Next]_vars

\* countdown alone, applied to every argument up to MaxSecs
InitCountdown ==
    /\ cli = [instant |-> FALSE, instant_area |-> FALSE]
    /\ path = Tools
    /\ shot_dir = "pictures"
    /\ pc = "cd_head"
    /\ exit = "running"
    /\ errmsg = ""
    /\ delay \in 0..MaxSecs
    /\ kind = "Screen"
    /\ how = "Save"
    /\ takeRet = "none"
    /\ secs = delay
    /\ secs0 = delay
    /\ takeNo = 0
    /\ clock = 1
    /\ name = 1
    /\ picker_child = "None"
    /\ hyprpicker = "none"
    /\ status = "none"
    /\ existed = "unknown"
    /\ renameRes = "none"
    /\ copyRes = "none"
    /\ removeRes = "none"
    /\ takeResult = "none"
    /\ fs = NoFiles
    /\ log = <<>>
    /\ dirIn = NoDirInputs

NextCountdown ==
    \/ CountdownHead
    \/ CountdownTick
    \/ CountdownReturn

SpecCountdown == InitCountdown /\ [][NextCountdown]_vars

\* main's resolution of shot_dir alone, applied to every input of DirInputs
InitResolve ==
    /\ cli = [instant |-> FALSE, instant_area |-> FALSE]
    /\ path = Tools
    /\ shot_dir = <<>>
    /\ pc = "resolve_dir"
    /\ exit = "running"
    /\ errmsg = ""
    /\ delay = 0
    /\ kind = "Screen"
    /\ how = "Save"
    /\ takeRet = "none"
    /\ secs = 0
    /\ secs0 = 0
    /\ takeNo = 0
    /\ clock = 1
    /\ name = 1
    /\ picker_child = "None"
    /\ hyprpicker = "none"
    /\ status = "none"
    /\ existed = "unknown"
    /\ renameRes = "none"
    /\ copyRes = "none"
    /\ removeRes = "none"
    /\ takeResult = "none"
    /\ fs = NoFiles
    /\ log = <<>>
    /\ dirIn \in DirInputs

\* let shot_dir = cli.dir.or_else(xdg_screenshots_dir).unwrap_or(..);
\* fs::create_dir_all(&shot_dir).ok();
ResolveDir ==
    /\ pc = "resolve_dir"
    /\ shot_dir' = ResolveShotDir(dirIn)
    /\ log' = Append(log, Event("create_dir_all", <<>>, <<>>, 0))
    /\ pc' = "resolved"
    /\ UNCHANGED <<cli, path, dirIn, riVars, cdVars, takeVars, takeRet, exit,
                   errmsg>>

NextResolve == ResolveDir

SpecResolve == InitResolve /\ [][NextResolve]_vars

----------------------------------------------------------------------------
(* Reading the log *)

IsProvider(e) == e.ev = "grimblast"

IsRelocation(e) == e.ev \in {"rename", "copy"}

IsPrompt(e) == e.ev = "rofi"

IsCancelledPrompt(e) == e.ev = "rofi" /\ e.args[2] = "cancel"

IsSavedNote(e) == e.ev = "notify" /\ e.args[1] = "Screenshot saved"

IsCountdownNote(e) == e.ev = "notify" /\ e.args[1] = "Taking screenshot"

InThisTake(e) == e.take = takeNo

NProvider == Len(SelectSeq(log, IsProvider))

NRelocation == Len(SelectSeq(log, IsRelocation))

NPrompts == Len(SelectSeq(log, IsPrompt))

PromptCancelled == \E i \in 1..Len(log) : IsCancelledPrompt(log[i])

\* relocation attempts and success notifications of the current call of take
RelocatedInThisTake ==
    \E i \in 1..Len(log) : IsRelocation(log[i]) /\ InThisTake(log[i])

SavedNoteInThisTake ==
    \E i \in 1..Len(log) : IsSavedNote(log[i]) /\ InThisTake(log[i])

\* the remaining counts the countdown notifications stated, in order
CountdownNotes ==
    LET notes == SelectSeq(log, IsCountdownNote)
    IN  [i \in 1..Len(notes) |-> notes[i].n]

Down(k) == [i \in 1..k |-> k + 1 - i]

ExpectedNotes(s) == IF s > 10 THEN <<s>> \o Down(10) ELSE Down(s)

IsPrefix(a, b) == Len(a) <= Len(b) /\ SubSeq(b, 1, Len(a)) = a

TakeReturned == takeResult \in {"ok", "err"}

----------------------------------------------------------------------------
(* Claims *)

\* C1: once take has spawned the freeze helper, every return from take
\* (the early return on a provider that cannot be started included) leaves
\* the helper killed.
C1_FreezeHelperKilledOnEveryExit ==
    TakeReturned => hyprpicker # "alive"

\* C2: in a run where a menu prompt was cancelled there is no
\* capture-provider invocation and no relocation attempt, whatever the flags.
C2_CancelMeansNoCaptureNoRelocation ==
    PromptCancelled => NProvider = 0 /\ NRelocation = 0

\* C3: with --instant the run takes a full-screen capture with the Save
\* destination and never issues a menu prompt.
C3_InstantIssuesNoPrompt ==
    cli.instant =>
        /\ NPrompts = 0
        /\ NProvider > 0 =>
              SubSeq(SelectSeq(log, IsProvider)[1].args, 1, 3)
                  = <<"--notify", "save", "screen">>
        /\ pc \in {"main_instant_area", "ri_when"} => NProvider > 0

\* C4: when the capture provider exits with a failure status, take returns
\* an error, attempts no move or copy, emits no success notification, and
\* the freeze helper is no longer alive when the error is raised.
C4_ProviderFailure ==
    status = "fail" =>
        /\ pc \notin {"take_unfreeze", "take_status"} => takeResult = "err"
        /\ takeResult = "err" => hyprpicker # "alive"
        /\ ~RelocatedInThisTake
        /\ ~SavedNoteInThisTake

C4_Witness ==
    /\ status = "fail"
    /\ takeResult = "err"
    /\ hyprpicker = "killed"
    /\ pc = "done"

\* C5: when the temporary file exists after a successful provider run and
\* both the move and the copy fallback fail, take returns an error.
C5_RelocationFailureIsFatal ==
    (TakeReturned /\ renameRes = "err" /\ copyRes = "err") => takeResult = "err"

\* C6: whenever take has emitted the success notification, the file is
\* present at the destination path.
C6_SavedNoteMeansFileAtDest ==
    (TakeReturned /\ SavedNoteInThisTake) => fs[dest] # Absent

\* C7: countdown(s) emits ExpectedNotes(s) and then returns: s, 10, 9, .., 1
\* for s > 10; s, s-1, .., 1 for 1 <= s <= 10; nothing for s = 0; it never
\* states a remaining count of 0.
C7_CountdownNotes ==
    /\ IsPrefix(CountdownNotes, ExpectedNotes(secs0))
    /\ pc = "ri_take" => CountdownNotes = ExpectedNotes(secs0)
    /\ \A i \in 1..Len(CountdownNotes) : CountdownNotes[i] # 0

C7_Witness ==
    /\ pc = "ri_take"
    /\ secs0 = 15
    /\ CountdownNotes = <<15, 10, 9, 8, 7, 6, 5, 4, 3, 2, 1>>

\* C8 as stated: one call of countdown emits at most 10 notifications.
C8_AtMostTenNotes == Len(CountdownNotes) <= 10

\* C8 amended: one call of countdown emits at most 11 notifications, however
\* large the delay (one for the full delay, then ten for 10..1).
C8_AtMostElevenNotes == Len(CountdownNotes) <= 11

C8_Witness ==
    /\ pc = "ri_take"
    /\ secs0 = MaxSecs
    /\ Len(CountdownNotes) = 11

\* C9: when the provider exits successfully and the temporary path does not
\* exist, take returns success, attempts no relocation and emits no success
\* notification.
C9_NoFileIsSilentSuccess ==
    (status = "ok" /\ existed = "no") =>
        /\ takeResult = "ok"
        /\ ~RelocatedInThisTake
        /\ ~SavedNoteInThisTake

C9_Witness ==
    /\ status = "ok"
    /\ existed = "no"
    /\ how = "Copy"
    /\ pc = "done"
    /\ exit = "ok"

\* the relocation of the current call of take went through: by the move, or
\* by the copy fallback after a failed move
Relocated ==
    /\ takeResult = "ok"
    /\ renameRes = "ok" \/ (renameRes = "err" /\ copyRes = "ok")

\* C10 as stated: after a relocation by move or by copy fallback the file is
\* at the destination path and the temporary path is absent unless the
\* delete after the copy failed; the result is not an error.
C10_RelocationLeavesDestOnly ==
    /\ (renameRes = "ok" \/ copyRes = "ok") => takeResult # "err"
    /\ Relocated =>
          /\ fs[dest] # Absent
          /\ fs[tmp_path] # Absent => removeRes = "err"

\* C10 amended: the same, except that when the screenshot directory is the
\* home directory the destination path is the temporary path, and the file
\* stays at that one path.
C10_RelocationLeavesDestOnlyUnlessSamePath ==
    /\ (renameRes = "ok" \/ copyRes = "ok") => takeResult # "err"
    /\ Relocated =>
          /\ fs[dest] # Absent
          /\ fs[tmp_path] # Absent => (removeRes = "err" \/ dest = tmp_path)
          /\ dest # tmp_path => (fs[tmp_path] # Absent <=> removeRes = "err")

C10_Witness ==
    /\ Relocated
    /\ renameRes = "err"
    /\ copyRes = "ok"
    /\ removeRes = "err"
    /\ fs[dest] = takeNo
    /\ fs[tmp_path] = takeNo
    /\ exit = "ok"

\* what the first line of a file starting with the key holds after the key,
\* stated by position: blanks off both ends, then quotes off both ends, then
\* every placeholder atom replaced (a home directory is one atom here)
KeyLines(f) == {i \in 1..Len(f) : f[i] # <<>> /\ f[i][1] = "XDG_SCREENSHOTS_DIR="}

FirstKeyLine(f) == CHOOSE i \in KeyLines(f) : \A j \in KeyLines(f) : i <= j

Inner(t, c) ==
    LET keep == {i \in 1..Len(t) : t[i] # c} IN
    IF keep = {} THEN <<>>
    ELSE SubSeq(t, CHOOSE i \in keep : \A j \in keep : i <= j,
                   CHOOSE i \in keep : \A j \in keep : i >= j)

Substituted(t, in) ==
    [i \in 1..Len(t) |-> IF t[i] = "$HOME" THEN home(in)[1] ELSE t[i]]

FileTier(in) == in.cfg.some /\ KeyLines(in.cfg.val) # {}

\* C11: shot_dir is the positional argument if given; else the variable
\* XDG_SCREENSHOTS_DIR with $HOME substituted; else the first
\* XDG_SCREENSHOTS_DIR= line of user-dirs.dirs, unquoted, with $HOME
\* substituted; else <home>/Pictures.  A tier is used only when every higher
\* tier is absent.
C11_DirectoryPrecedence ==
    pc = "resolved" =>
        /\ dirIn.dir.some => shot_dir = dirIn.dir.val
        /\ (~dirIn.dir.some /\ dirIn.env.some) =>
              shot_dir = Substituted(dirIn.env.val, dirIn)
        /\ (~dirIn.dir.some /\ ~dirIn.env.some /\ FileTier(dirIn)) =>
              LET f == dirIn.cfg.val
                  rest == Tail(f[FirstKeyLine(f)])
              IN  shot_dir = Substituted(Inner(Inner(rest, " "), "\""), dirIn)
        /\ (~dirIn.dir.some /\ ~dirIn.env.some /\ ~FileTier(dirIn)) =>
              shot_dir = home(dirIn) \o <<"/Pictures">>

C11_Witness ==
    /\ pc = "resolved"
    /\ ~dirIn.dir.some
    /\ ~dirIn.env.some
    /\ dirIn.cfg.some
    /\ Len(dirIn.cfg.val) = 2
    /\ dirIn.cfg.val[1][1] = "XDG_PICTURES_DIR="
    /\ dirIn.HOME.some
    /\ shot_dir = <<"/home/u", "/Screens">>

MissingRequired == {i \in 1..Len(RequiredTools) : RequiredTools[i] \notin path}

\* C12: when a required tool is missing the run ends in an error naming the
\* first missing one, with no prompt, countdown, freeze-helper spawn or
\* provider invocation before it; a missing hyprpicker alone never ends it.
C12_MissingToolAbortsFirst ==
    /\ MissingRequired # {} =>
          /\ log = <<>>
          /\ hyprpicker = "none"
          /\ pc \in {"ensure_tools", "done"}
          /\ pc = "done" =>
                /\ exit = "err"
                /\ errmsg = RequiredTools[CHOOSE i \in MissingRequired :
                                             \A j \in MissingRequired : i <= j]
    /\ MissingRequired = {} =>
          /\ errmsg \notin Tools
          /\ pc = "done" => log # <<>>

C12_Witness ==
    /\ pc = "done"
    /\ exit = "err"
    /\ errmsg = "rofi"
    /\ "grimblast" \in path
    /\ "notify-send" \notin path
    /\ log = <<>>

InteractivePcs ==
    {"ri_when", "ri_timer", "ri_kind", "ri_how", "ri_delay", "ri_take",
     "cd_head", "cd_loop"}

IsAreaSaveProvider(e) ==
    IsProvider(e) /\ SubSeq(e.args, 1, 3) = <<"--notify", "save", "area">>

AreaCaptureInvoked == \E i \in 1..Len(log) : IsAreaSaveProvider(log[i])

\* C13: with --instant-area the run never issues a prompt nor enters the
\* interactive flow; its call of take is an area capture with the Save
\* destination, and when that call returns, with Ok or with an error, the
\* run is over with that outcome.  The only runs that end without the area
\* capture are those an earlier error ended (a missing required tool, or the
\* failed capture of --instant given along with it).
C13_InstantAreaCapturesAndExits ==
    cli.instant_area =>
        /\ NPrompts = 0
        /\ pc \notin InteractivePcs
        /\ takeRet = "instant_area" => (kind = "Area" /\ how = "Save")
        /\ (takeRet = "instant_area" /\ pc # "take_name") =>
              /\ \A i \in 1..Len(log) :
                    (IsProvider(log[i]) /\ InThisTake(log[i]))
                        => IsAreaSaveProvider(log[i])
              /\ TakeReturned => pc \in {"take_ret", "done"}
              /\ pc = "done" =>
                    /\ AreaCaptureInvoked
                    /\ exit = IF takeResult = "ok" THEN "ok" ELSE "err"
        /\ (pc = "done" /\ exit = "ok") => takeRet = "instant_area"
        /\ (pc = "done" /\ takeRet # "instant_area") =>
              \/ MissingRequired # {}
              \/ cli.instant /\ takeRet = "instant" /\ takeResult = "err"

C13_Witness ==
    /\ cli.instant_area
    /\ ~cli.instant
    /\ pc = "done"
    /\ exit = "err"
    /\ status = "fail"
    /\ AreaCaptureInvoked
    /\ NProvider = 1

HasPath(e) == e.ev \in {"grimblast", "rename", "copy", "remove_file"}

\* C14: every path one call of take hands to the provider or to the file
\* system carries one and the same file name: the provider and the delete
\* get <home>/<name>, the move and the copy get <shot_dir>/<name>.
C14_OneFileNamePerTake ==
    LET withPath == SelectSeq(log, HasPath)
    IN  /\ \A i, j \in 1..Len(withPath) :
              withPath[i].take = withPath[j].take
                  => withPath[i].path[2] = withPath[j].path[2]
        /\ \A i \in 1..Len(withPath) :
              /\ withPath[i].ev \in {"grimblast", "remove_file"}
                    => withPath[i].path[1] = "home"
              /\ withPath[i].ev \in {"rename", "copy"}
                    => withPath[i].path[1] = shot_dir
              /\ (InThisTake(withPath[i]) /\ pc # "take_name")
                    => withPath[i].path[2] = name

C14_Witness ==
    /\ shot_dir = "pictures"
    /\ takeNo = 2
    /\ name = 2
    /\ takeResult = "ok"
    /\ \A e \in {"grimblast", "rename", "copy", "remove_file"} :
          \E i \in 1..Len(log) : log[i].ev = e /\ InThisTake(log[i])

\* the effects of run_interactive: the log from its first prompt on
RECURSIVE FromFirstPrompt(_)
FromFirstPrompt(q) ==
    IF q = <<>> \/ IsPrompt(Head(q)) THEN q ELSE FromFirstPrompt(Tail(q))

\* the log from the first prompt on
RiLog == FromFirstPrompt(log)

\* the place of an effect in the order the claim gives
Rank(e) ==
    CASE IsPrompt(e) /\ e.args[1] = "Take screenshot" -> 1
      [] IsPrompt(e) /\ e.args[1] = "Choose timer" -> 2
      [] IsPrompt(e) /\ e.args[1] = "Type of screenshot" -> 3
      [] IsPrompt(e) /\ e.args[1] = "How to save" -> 4
      [] IsCountdownNote(e) \/ e.ev = "sleep" -> 5
      [] OTHER -> 6

Uncancelled == \A i \in 1..Len(log) : IsPrompt(log[i]) => log[i].args[2] = "ok"

\* the interactive call of take has run the provider
InteractiveCaptured ==
    takeRet = "interactive" /\ pc \notin {"take_name", "take_freeze", "take_grimblast"}

\* C15: in an uncancelled run of run_interactive the effects come in the
\* order timing prompt, timer prompt (iff the timing selection is
\* "Delayed"), region prompt, destination prompt, countdown (iff delay > 0,
\* after all prompts), one provider invocation; no prompt comes twice and
\* none after the countdown started.
C15_InteractiveOrder ==
    LET r == RiLog
        ranks == [i \in 1..Len(r) |-> Rank(r[i])]
        has == {ranks[i] : i \in 1..Len(r)}
        nProvider == Len(SelectSeq(r, IsProvider))
    IN  Uncancelled =>
            /\ \A i \in 1..(Len(r) - 1) :
                  /\ ranks[i] <= ranks[i + 1]
                  /\ ranks[i] <= 4 => ranks[i] < ranks[i + 1]
            /\ 2 \in has => r[1].args[3] = "Delayed"
            /\ (3 \in has /\ r[1].args[3] = "Delayed") => 2 \in has
            /\ pc \in {"cd_head", "cd_loop"} =>
                  (delay > 0 /\ {1, 3, 4} \subseteq has)
            /\ 5 \in has => delay > 0
            /\ (takeRet = "interactive" /\ delay > 0) =>
                  Len(CountdownNotes) = IF delay > 10 THEN 11 ELSE delay
            /\ nProvider <= 1
            /\ InteractiveCaptured =>
                  /\ nProvider = 1
                  /\ {1, 3, 4} \subseteq has

C15_Witness ==
    /\ ~cli.instant
    /\ pc = "done"
    /\ exit = "ok"
    /\ delay = 20
    /\ Len(SelectSeq(RiLog, IsPrompt)) = 4
    /\ Len(CountdownNotes) = 11
    /\ Len(SelectSeq(RiLog, IsProvider)) = 1
    /\ Rank(RiLog[Len(RiLog)]) = 6

IsSleep(e) == e.ev = "sleep"

\* the seconds of each blocking wait, in order
Sleeps ==
    LET z == SelectSeq(log, IsSleep) IN [i \in 1..Len(z) |-> z[i].n]

RECURSIVE Sum(_)
Sum(q) == IF q = <<>> THEN 0 ELSE Head(q) + Sum(Tail(q))

IsTimerPrompt(e) == IsPrompt(e) /\ e.args[1] = "Choose timer"

\* the delay each selection of the timer menu stands for
SelectedSeconds(t) ==
    CASE t = <<"5", "s">> -> 5
      [] t = <<"1", "0", "s">> -> 10
      [] t = <<"2", "0", "s">> -> 20
      [] t = <<"3", "0", "s">> -> 30
      [] t = <<"6", "0", "s">> -> 60
      [] t = <<"0", "s">> -> 0
      [] OTHER -> 5

\* the delay the run's selections stand for: 0 unless "Delayed" was picked
SelectedDelay ==
    IF RiLog # <<>> /\ RiLog[1].args[3] = "Delayed"
          /\ SelectSeq(RiLog, IsTimerPrompt) # <<>>
    THEN SelectedSeconds(SelectSeq(RiLog, IsTimerPrompt)[1].args[3])
    ELSE 0

Ones(k) == [i \in 1..k |-> 1]

\* C16: the blocking waits between the last prompt and the provider
\* invocation add up to the selected delay: N for "Ns" (above 10 as one wait
\* of N - 10 and ten of one second), 5 for a selection that is no number, 0
\* for "Immediate"; the remaining-seconds counter never goes below 0.
C16_WaitEqualsSelectedDelay ==
    /\ secs >= 0
    /\ Uncancelled =>
          /\ Sum(Sleeps) <= SelectedDelay
          /\ InteractiveCaptured =>
                /\ Sum(Sleeps) = SelectedDelay
                /\ Sleeps = IF SelectedDelay > 10
                            THEN <<SelectedDelay - 10>> \o Ones(10)
                            ELSE Ones(SelectedDelay)

C16_Witness ==
    /\ InteractiveCaptured
    /\ pc = "done"
    /\ SelectSeq(RiLog, IsTimerPrompt) # <<>>
    /\ SelectSeq(RiLog, IsTimerPrompt)[1].args[3] = <<"6", "0", "s">>
    /\ Sleeps = <<50, 1, 1, 1, 1, 1, 1, 1, 1, 1, 1>>

\* C17: the freeze helper is alive only from just before the provider is
\* invoked until just after the provider's wait returned; it is never alive
\* during a prompt, the countdown, the relocation or the success
\* notification, nor after take.  (Each foreground process is started and
\* waited for within one step here, as Command::status and wait_with_output
\* do, so no two of them overlap.)
C17_FreezeHelperWindow ==
    hyprpicker = "alive" =>
        /\ pc \in {"take_grimblast", "take_unfreeze"}
        /\ pc \notin InteractivePcs
        /\ pc \notin {"take_rename", "take_copy", "take_remove", "take_notify"}

IsSpawn(e) == e.ev = "spawn_hyprpicker"

TakePcsAfterProvider ==
    {"take_unfreeze", "take_status", "take_exists", "take_rename",
     "take_copy", "take_remove", "take_notify", "take_ret"}

ProviderInThisTake ==
    LET runs == SelectSeq(log, IsProvider)
    IN  \E i \in 1..Len(runs) : InThisTake(runs[i])

\* C18: the freeze helper is spawned at most once per call of take, and only
\* for an Area capture with hyprpicker on the search path; whether or not it
\* was spawned (tool absent, spawn failed, other kind) the provider is
\* invoked, and take fails only on the provider's account.
C18_FreezeOnlyForAreaAndOptional ==
    /\ LET spawns == SelectSeq(log, IsSpawn)
       IN  /\ \A i, j \in 1..Len(spawns) :
                 spawns[i].take = spawns[j].take => i = j
           /\ \A i \in 1..Len(spawns) :
                 /\ "hyprpicker" \in path
                 /\ InThisTake(spawns[i])
                 /\ kind = "Area"
           /\ hyprpicker # "none" => spawns # <<>>
    /\ pc \in TakePcsAfterProvider => ProviderInThisTake
    /\ takeResult = "err" => status \in {"spawn_err", "fail"}

C18_Witness ==
    /\ kind = "Area"
    /\ "hyprpicker" \in path
    /\ hyprpicker = "none"
    /\ ProviderInThisTake
    /\ pc = "done"
    /\ exit = "ok"

\* the provider keyword each menu selection stands for
RegionKeyword(sel) ==
    CASE sel = "Capture Everything" -> "screen"
      [] sel = "Capture Active Display" -> "output"
      [] OTHER -> "area"

DestinationKeyword(sel) ==
    CASE sel = "Copy" -> "copy"
      [] sel = "Save" -> "save"
      [] sel = "Copy & Save" -> "copysave"
      [] OTHER -> "edit"

IsKindPrompt(e) == IsPrompt(e) /\ e.args[1] = "Type of screenshot"

IsHowPrompt(e) == IsPrompt(e) /\ e.args[1] = "How to save"

\* C19: the provider invocation of the interactive flow has the arguments
\* --notify, the keyword of the selected destination, the keyword of the
\* selected region, the temporary path, in this order.
C19_ProviderGetsSelection ==
    (takeRet = "interactive" /\ SelectSeq(RiLog, IsProvider) # <<>>) =>
        SelectSeq(RiLog, IsProvider)[1].args =
            << "--notify",
               DestinationKeyword(SelectSeq(RiLog, IsHowPrompt)[1].args[3]),
               RegionKeyword(SelectSeq(RiLog, IsKindPrompt)[1].args[3]),
               <<"home", name>> >>

C19_Witness ==
    /\ takeRet = "interactive"
    /\ pc = "done"
    /\ SelectSeq(RiLog, IsProvider) # <<>>
    /\ SelectSeq(RiLog, IsHowPrompt)[1].args[3] = "Copy & Save"
    /\ SelectSeq(RiLog, IsKindPrompt)[1].args[3] = "Capture Active Display"
    /\ SelectSeq(RiLog, IsProvider)[1].args
          = <<"--notify", "copysave", "output", <<"home", 1>>>>

\* the effects the run may start: prompt, countdown, provider, relocation
IsStarted(e) ==
    IsPrompt(e) \/ IsCountdownNote(e) \/ IsSleep(e) \/ IsProvider(e)
        \/ IsRelocation(e)

\* the effects started so far, in order
Started == SelectSeq(log, IsStarted)

ProviderFailed == status \in {"spawn_err", "fail"}

\* C20: no prompt is issued twice and no call of take runs the provider
\* twice; after a prompt that failed or was cancelled, and after a provider
\* that could not be run or exited with failure, no prompt, countdown,
\* provider invocation or relocation is started and the run ends in error.
C20_NoRetries ==
    /\ LET prompts == SelectSeq(log, IsPrompt)
       IN  \A i, j \in 1..Len(prompts) :
              i < j => prompts[i].args[1] # prompts[j].args[1]
    /\ LET runs == SelectSeq(log, IsProvider)
       IN  \A i, j \in 1..Len(runs) : i < j => runs[i].take # runs[j].take
    /\ LET st == Started
       IN  \A i \in 1..Len(st) :
              (IsPrompt(st[i]) /\ st[i].args[2] # "ok") =>
                  /\ i = Len(st)
                  /\ pc = "done"
                  /\ exit = "err"
    /\ ProviderFailed =>
          /\ LET st == Started
             IN  /\ st # <<>>
                 /\ IsProvider(st[Len(st)])
                 /\ InThisTake(st[Len(st)])
          /\ pc \in {"take_unfreeze", "take_status", "take_ret", "done"}
          /\ pc = "done" => exit = "err"

C20_Witness ==
    /\ pc = "done"
    /\ exit = "err"
    /\ status = "fail"
    /\ takeRet = "interactive"
    /\ NPrompts >= 3
    /\ NProvider >= 1

====
